---- MODULE Spec2Model ----
(***************************************************************************)
(* Model of CollectorService (spaceone/inventory/service/                  *)
(* collector_service.py): the collect operation, step by step, for two     *)
(* invocations (one after the other, or interleaved), together with        *)
(* update_plugin, the rule resynchronisation helpers and                   *)
(* scheduled_collectors.  The managers the service calls (job, job task,   *)
(* collector, collector rule, secret, plugin) live outside this file; they *)
(* are modelled by their contract: every call either completes or raises.  *)
(***************************************************************************)
EXTENDS Integers, Sequences, FiniteSets, TLC

\* ---------------------------------------------------------------- bounds
\* Number of secrets held by the secret store.
NumSecrets == 3
\* Highest plugin version the registry can report.
MaxVersion == 3
\* Number of calls that may raise in one behaviour.
MaxFaults == 2
\* Largest hour or minute of a schedule.
MaxSlot == 2

\* ------------------------------------------------------------ identities
Procs == {"p1", "p2"}
CollectorId == "collector-1"
DomainId == "domain-1"

\* ------------------------------------------------------ dictionaries
EmptyDict == [k \in {} |-> {}]

\* dict.get(k, default)
DictGet(d, k, default) == IF k \in DOMAIN d THEN d[k] ELSE default

\* dict.update(other): the keys of other win.
DictUpdate(d, other) ==
    [k \in (DOMAIN d) \cup (DOMAIN other) |->
        IF k \in DOMAIN other THEN other[k] ELSE d[k]]

\* ------------------------------------------------------ the secret store
SecretIds == 1 .. NumSecrets

\* A secret of the store: odd secrets belong to service account sa-1 and
\* project-1, even ones to sa-2; the second secret has no project.
Secret(s) ==
    [secret_id |-> s,
     service_account_id |-> IF s % 2 = 1 THEN "sa-1" ELSE "sa-2",
     schema |-> IF s = 1 THEN "schema-1" ELSE "schema-2",
     project_id |-> IF s % 2 = 1 THEN "project-1"
                    ELSE IF s = 2 THEN "" ELSE "project-2"]

\* One clause {'k', 'v', 'o'} of a store query, evaluated on a secret.
ClauseHolds(s, clause) ==
    IF clause.o = "in" THEN Secret(s)[clause.k] \in clause.v
    ELSE Secret(s)[clause.k] = clause.v

\* secret_manager.list_secrets(query, domain_id)['results']: the secrets that
\* satisfy every clause of the query's filter, in the store's order.
RECURSIVE ListSecrets(_, _)
ListSecrets(query, s) ==
    IF s > NumSecrets THEN <<>>
    ELSE LET rest == ListSecrets(query, s + 1)
             clauses == DictGet(query, "filter", <<>>)
         IN  IF \A i \in 1 .. Len(clauses) : ClauseHolds(s, clauses[i])
             THEN <<Secret(s)>> \o rest
             ELSE rest

\* -------------------------------------------------------- plugin metadata
MetaA == [collector_rules |-> <<"rule-a", "rule-b">>]
MetaB == [collector_rules |-> <<"rule-c">>]
MetaNone == [supported_resource_type |-> <<"inventory.Server">>]
Metadatas == {MetaA, MetaB, MetaNone}

\* The secret filters a collector may be configured with.
SecretFilters ==
    {EmptyDict, [service_accounts |-> {"sa-1"}]}

\* The params collect is called with.  secret_id 0 is an absent (falsy)
\* secret_id, NumSecrets + 1 an id unknown to the secret store.
RequestParams ==
    {[secret_id |-> 0, use_cache |-> FALSE],
     [secret_id |-> 2, use_cache |-> TRUE],
     [secret_id |-> NumSecrets + 1, use_cache |-> FALSE]}

\* ------------------------------------------------------------- helpers
\* CollectorService._set_secret_filter
SetSecretFilter(secret_filter, secret_id) ==
    (IF "secrets" \in DOMAIN secret_filter
     THEN <<[k |-> "secret_id", v |-> secret_filter["secrets"], o |-> "in"]>>
     ELSE <<>>)
    \o
    (IF "service_accounts" \in DOMAIN secret_filter
     THEN <<[k |-> "service_account_id",
             v |-> secret_filter["service_accounts"], o |-> "in"]>>
     ELSE <<>>)
    \o
    (IF "schemas" \in DOMAIN secret_filter
     THEN <<[k |-> "schema", v |-> secret_filter["schemas"], o |-> "in"]>>
     ELSE <<>>)
    \o
    (IF secret_id # 0
     THEN <<[k |-> "secret_id", v |-> secret_id, o |-> "eq"]>>
     ELSE <<>>)

\* CollectorService.list_secret_from_secret_filter
ListSecretFromSecretFilter(secret_filter, secret_id, domain_id) ==
    LET filter == SetSecretFilter(secret_filter, secret_id)
        query == IF filter # <<>> THEN [filter |-> filter] ELSE EmptyDict
        results == ListSecrets(query, 1)
    IN  [i \in 1 .. Len(results) |-> results[i].secret_id]

\* CollectorService._set_secret_info, given the secret the store returned.
SetSecretInfo(secret_id, domain_id) ==
    LET secret == Secret(secret_id)
        base == [secret_id |-> secret_id]
        withAccount ==
            IF secret.service_account_id # ""
            THEN DictUpdate(base,
                     [service_account_id |-> secret.service_account_id])
            ELSE base
    IN  IF secret.project_id # ""
        THEN DictUpdate(withAccount, [project_id |-> secret.project_id])
        ELSE withAccount

\* collector_rule_mgr.filter_collector_rules(...).delete(): the rules left.
\* CollectorService.delete_collector_rules
DeleteCollectorRules(store, collector_id, domain_id) ==
    SelectSeq(store, LAMBDA r : ~(/\ r.collector_id = collector_id
                                  /\ r.rule_type = "MANAGED"
                                  /\ r.domain_id = domain_id))

\* CollectorService.create_collector_rules_by_metadata, stopped after its
\* first n rules (n = NumRules(plugin_metadata) when no create raises).  The
\* parameters are declared in the order (plugin_metadata, domain_id,
\* collector_id).
RECURSIVE CreateCollectorRulesByMetadata(_, _, _, _, _)
CreateCollectorRulesByMetadata(store, plugin_metadata, domain_id, collector_id, n) ==
    LET collector_rules == DictGet(plugin_metadata, "collector_rules", <<>>)
    IN  IF n = 0 THEN store
        ELSE Append(CreateCollectorRulesByMetadata(store, plugin_metadata,
                        domain_id, collector_id, n - 1),
                    DictUpdate([payload |-> collector_rules[n]],
                               [domain_id |-> domain_id,
                                collector_id |-> collector_id,
                                rule_type |-> "MANAGED"]))

NumRules(plugin_metadata) ==
    Len(DictGet(plugin_metadata, "collector_rules", <<>>))

\* ----------------------------------------------------------------- state
VARIABLES
    collector,    \* the collector record: plugin_info, last_collected_by
    rules,        \* the collector rule store, in creation order
    jobs,         \* the Job each invocation created ("NONE": not created)
    job_tasks,    \* the JobTask store, in creation order
    queue,        \* the tasks put on the collect queue
    collected,    \* the calls of collecting_resources (inline collection)
    config,       \* queue_name: get_queue_name(name='collect_queue'), "" when
                  \* not set; task: whether create_task_pipeline builds a
                  \* task object
    loc,          \* each invocation of collect: its position and locals
    resyncs,      \* history: the rule resyncs that ran to completion
    faults,       \* number of calls that have raised
    sched         \* the last call of scheduled_collectors: the stored
                  \* collectors, its params and what it returned

vars == <<collector, rules, jobs, job_tasks, queue, collected, config, loc, resyncs, faults, sched>>

NoJob == [state |-> "NONE", total_tasks |-> 0, remained_tasks |-> 0, errors |-> <<>>, projects |-> <<>>]

\* job_mgr.create_job: state CREATED, counters 0, no error, no project.
NewJob == [state |-> "CREATED", total_tasks |-> 0, remained_tasks |-> 0, errors |-> <<>>, projects |-> <<>>]

IdleLoc ==
    [pc |-> "idle", params |-> EmptyDict, plugin_info |-> EmptyDict,
     updated_version |-> 0, metadata |-> EmptyDict, secret_ids |-> <<>>,
     count |-> 0, projects |-> <<>>, secret_info |-> EmptyDict,
     req_params |-> EmptyDict, task |-> FALSE, result |-> "none", raised_at |-> "none",
     rules_before |-> <<>>, trail |-> <<>>]

\* CollectorService.create, lines 77-86: the collector is created at version
\* 1 with the metadata the plugin returned, and its rules are created from
\* that metadata.
RulesAfterCreate(metadata) ==
    CreateCollectorRulesByMetadata(<<>>, metadata, CollectorId, DomainId, NumRules(metadata))

\* A rule a user authored for the collector.
CustomRule ==
    [payload |-> "rule-custom", domain_id |-> DomainId, collector_id |-> CollectorId, rule_type |-> "CUSTOM"]

\* scheduled_collectors has not been called.
NotCalled == [pc |-> "idle", store |-> {}, params |-> EmptyDict, error |-> FALSE, results |-> {}]

\* The state after create: everything but the faults counted so far.
Created ==
    /\ \E f \in SecretFilters :
         collector = [plugin_info |-> [plugin_id |-> "plugin-1", version |-> 1, metadata |-> MetaA, secret_filter |-> f],
                      last_collected_by |-> "never"]
    /\ rules = Append(RulesAfterCreate(MetaA), CustomRule)
    /\ jobs = [p \in Procs |-> NoJob]
    /\ job_tasks = <<>>
    /\ queue = <<>>
    /\ collected = <<>>
    /\ config \in [queue_name : {"", "collect_queue"}, task : BOOLEAN]
    /\ loc = [p \in Procs |-> IdleLoc]
    /\ resyncs = <<>>
    /\ sched = NotCalled

Init == Created /\ faults = 0

\* -------------------------------------------------------------- plumbing
\* Assign the given locals of invocation p.
SetLoc(p, fields) == loc' = [loc EXCEPT ![p] = DictUpdate(@, fields)]

SetJob(p, fields) == jobs' = [jobs EXCEPT ![p] = DictUpdate(@, fields)]

\* A call raises: one more of the behaviour's faults.
Fault == faults < MaxFaults /\ faults' = faults + 1

NoFault == faults' = faults

\* An exception leaves collect for the caller.
RaiseToCaller(p, at, error) == SetLoc(p, [pc |-> "done", result |-> error, raised_at |-> at])

\* An exception inside the per-secret try block: control moves to the
\* except clause of line 275.
RaiseInLoop(p, at) ==
    LET t == loc[p].trail
    IN  SetLoc(p, [pc |-> "except_loop",
                   trail |-> [t EXCEPT ![Len(t)] = DictUpdate(@, [failed_at |-> at])]])

\* job_mgr.add_error: appends an entry to the job's error log.
AddError(job, error_code, secret_id) ==
    DictUpdate(job, [errors |-> Append(job.errors, [error_code |-> error_code, secret_id |-> secret_id])])

\* The secret of the iteration invocation p is in.
CurrentSecret(p) == loc[p].secret_ids[loc[p].count]

\* ------------------------------------------------- collect, lines 182-282
\* Lines 190-199: load the collector and take its plugin_info.
GetCollector(p) ==
    /\ loc[p].pc = "idle"
    /\ \E params \in RequestParams :
         SetLoc(p, [pc |-> "get_endpoint", params |-> params, plugin_info |-> collector.plugin_info])
    /\ NoFault
    /\ UNCHANGED <<collector, rules, jobs, job_tasks, queue, collected, config, resyncs, sched>>

\* The versions the plugin registry may report as new to a collector at the
\* given version: none (0), or the next one.
UpdatedVersions(version) == {0} \cup {v \in {version + 1} : v <= MaxVersion}

\* GetEndpoint with create_job of line 212 called before get_endpoint: the
\* Job is there when the resolution raises.
GetEndpointAfterCreateJob(p) ==
    /\ loc[p].pc = "get_endpoint"
    /\ \/ /\ \E v \in UpdatedVersions(loc[p].plugin_info.version) :
              SetLoc(p, [pc |-> IF v # 0 THEN "init_plugin" ELSE "create_job", updated_version |-> v])
          /\ NoFault
          /\ UNCHANGED jobs
       \/ /\ Fault
          /\ jobs' = [jobs EXCEPT ![p] = NewJob]
          /\ RaiseToCaller(p, "get_endpoint", "PLUGIN_ERROR")
    /\ UNCHANGED <<collector, rules, job_tasks, queue, collected, config, resyncs, sched>>

\* GetEndpoint without the test of line 203: the plugin is initialised again
\* whatever updated_version is.
GetEndpointAlwaysUpgrades(p) ==
    /\ loc[p].pc = "get_endpoint"
    /\ \/ /\ \E v \in UpdatedVersions(loc[p].plugin_info.version) :
              SetLoc(p, [pc |-> "init_plugin", updated_version |-> v])
          /\ NoFault
       \/ /\ Fault
          /\ RaiseToCaller(p, "get_endpoint", "PLUGIN_ERROR")
    /\ UNCHANGED <<collector, rules, jobs, job_tasks, queue, collected, config, resyncs, sched>>

\* Line 201: plugin_mgr.get_endpoint returns the endpoint and either no
\* updated version (0) or a later version, or raises.
GetEndpoint(p) ==
    /\ loc[p].pc = "get_endpoint"
    /\ \/ /\ \E v \in UpdatedVersions(loc[p].plugin_info.version) :
              SetLoc(p, [pc |-> IF v # 0 THEN "init_plugin" ELSE "create_job", updated_version |-> v])
          /\ NoFault
       \/ /\ Fault
          /\ RaiseToCaller(p, "get_endpoint", "PLUGIN_ERROR")
    /\ UNCHANGED <<collector, rules, jobs, job_tasks, queue, collected, config, resyncs, sched>>

\* Lines 203-205: on a new version the plugin is initialised again.
InitPlugin(p) ==
    /\ loc[p].pc = "init_plugin"
    /\ \/ /\ \E m \in Metadatas : SetLoc(p, [pc |-> "update_collector", metadata |-> m])
          /\ NoFault
       \/ /\ Fault
          /\ RaiseToCaller(p, "init_plugin", "PLUGIN_ERROR")
    /\ UNCHANGED <<collector, rules, jobs, job_tasks, queue, collected, config, resyncs, sched>>

\* Lines 206-207: the new version and metadata are stored on the collector.
UpdateCollector(p) ==
    /\ loc[p].pc = "update_collector"
    /\ LET plugin_info == DictUpdate(loc[p].plugin_info, [version |-> loc[p].updated_version, metadata |-> loc[p].metadata])
       IN  /\ collector' = DictUpdate(collector, [plugin_info |-> plugin_info])
           /\ SetLoc(p, [pc |-> "delete_rules", plugin_info |-> plugin_info])
    /\ NoFault
    /\ UNCHANGED <<rules, jobs, job_tasks, queue, collected, config, resyncs, sched>>

\* Line 209: self.delete_collector_rules(collector_id, domain_id)
DeleteRules(p) ==
    /\ loc[p].pc = "delete_rules"
    /\ \/ /\ rules' = DeleteCollectorRules(rules, CollectorId, DomainId)
          /\ SetLoc(p, [pc |-> "create_rules", rules_before |-> rules])
          /\ NoFault
       \/ /\ Fault
          /\ RaiseToCaller(p, "delete_collector_rules", "RULE_ERROR")
          /\ UNCHANGED rules
    /\ UNCHANGED <<collector, jobs, job_tasks, queue, collected, config, resyncs, sched>>

\* Line 210: self.create_collector_rules_by_metadata(response['metadata'],
\* collector_id, domain_id); a create_collector_rule that raises leaves the
\* rules created before it.
CreateRules(p) ==
    /\ loc[p].pc = "create_rules"
    /\ \/ /\ rules' = CreateCollectorRulesByMetadata(rules, loc[p].metadata, CollectorId, DomainId, NumRules(loc[p].metadata))
          /\ resyncs' = Append(resyncs, [by |-> p, metadata |-> loc[p].metadata, before |-> loc[p].rules_before, after |-> rules'])
          /\ SetLoc(p, [pc |-> "create_job"])
          /\ NoFault
       \/ /\ Fault
          /\ \E n \in 0 .. (NumRules(loc[p].metadata) - 1) :
               rules' = CreateCollectorRulesByMetadata(rules, loc[p].metadata, CollectorId, DomainId, n)
          /\ RaiseToCaller(p, "create_collector_rules_by_metadata", "RULE_ERROR")
          /\ UNCHANGED resyncs
    /\ UNCHANGED <<collector, jobs, job_tasks, queue, collected, config, sched>>

\* Line 212: job_mgr.create_job(collector_vo, params)
CreateJob(p) ==
    /\ loc[p].pc = "create_job"
    /\ jobs' = [jobs EXCEPT ![p] = NewJob]
    /\ SetLoc(p, [pc |-> "list_secrets"])
    /\ NoFault
    /\ UNCHANGED <<collector, rules, job_tasks, queue, collected, config, resyncs, sched>>

\* Lines 214-219: the secrets are selected with the filter read from
\* plugin_info under the key 'secret_filters'.
SelectSecrets(p) ==
    /\ loc[p].pc = "list_secrets"
    /\ \/ /\ LET secret_ids == ListSecretFromSecretFilter(DictGet(loc[p].plugin_info, "secret_filters", EmptyDict), DictGet(loc[p].params, "secret_id", 0), DomainId)
             IN  SetLoc(p, [pc |-> IF secret_ids = <<>> THEN "make_success" ELSE "make_inprogress", secret_ids |-> secret_ids])
          /\ NoFault
       \/ /\ Fault
          /\ SetLoc(p, [pc |-> "except_init", raised_at |-> "list_secrets"])
    /\ UNCHANGED <<collector, rules, jobs, job_tasks, queue, collected, config, resyncs, sched>>

\* MakeSuccess with the call of make_success_by_vo left out: the job is
\* returned as it was created.
MakeSuccessNotMarked(p) ==
    /\ loc[p].pc = "make_success"
    /\ SetLoc(p, [pc |-> "done", result |-> "returned"])
    /\ NoFault
    /\ UNCHANGED <<collector, rules, jobs, job_tasks, queue, collected, config, resyncs, sched>>

\* Lines 219-222: nothing to do; the call is inside the try of line 214.
MakeSuccess(p) ==
    /\ loc[p].pc = "make_success"
    /\ \/ /\ SetJob(p, [state |-> "SUCCESS"])
          /\ SetLoc(p, [pc |-> "done", result |-> "returned"])
          /\ NoFault
       \/ /\ Fault
          /\ SetLoc(p, [pc |-> "except_init", raised_at |-> "make_success_by_vo"])
          /\ UNCHANGED jobs
    /\ UNCHANGED <<collector, rules, job_tasks, queue, collected, config, resyncs, sched>>

\* ExceptInit with the call of make_error_by_vo left out.
ExceptInitNotMarked(p) ==
    /\ loc[p].pc = "except_init"
    /\ jobs' = [jobs EXCEPT ![p] = AddError(@, "ERROR_COLLECT_INITIALIZE", DictGet(loc[p].params, "secret_id", 0))]
    /\ SetLoc(p, [pc |-> "done", result |-> "ERROR_COLLECT_INITIALIZE"])
    /\ NoFault
    /\ UNCHANGED <<collector, rules, job_tasks, queue, collected, config, resyncs, sched>>

\* Lines 224-228: the except clause of the secret stage.
ExceptInit(p) ==
    /\ loc[p].pc = "except_init"
    /\ jobs' = [jobs EXCEPT ![p] = DictUpdate(AddError(@, "ERROR_COLLECT_INITIALIZE", DictGet(loc[p].params, "secret_id", 0)), [state |-> "ERROR"])]
    /\ SetLoc(p, [pc |-> "done", result |-> "ERROR_COLLECT_INITIALIZE"])
    /\ NoFault
    /\ UNCHANGED <<collector, rules, job_tasks, queue, collected, config, resyncs, sched>>

\* MakeInProgress without the try of line 230: the failure leaves collect.
MakeInProgressNotCaught(p) ==
    /\ loc[p].pc = "make_inprogress"
    /\ \/ /\ SetJob(p, [state |-> "IN_PROGRESS"])
          /\ SetLoc(p, [pc |-> "loop", count |-> 0, projects |-> <<>>])
          /\ NoFault
       \/ /\ Fault
          /\ RaiseToCaller(p, "make_inprogress_by_vo", "JOB_ERROR")
          /\ UNCHANGED jobs
    /\ UNCHANGED <<collector, rules, job_tasks, queue, collected, config, resyncs, sched>>

\* Lines 230-234: a failure to mark the job in progress is only logged.
MakeInProgress(p) ==
    /\ loc[p].pc = "make_inprogress"
    /\ \/ /\ SetJob(p, [state |-> "IN_PROGRESS"])
          /\ NoFault
       \/ /\ Fault
          /\ UNCHANGED jobs
    /\ SetLoc(p, [pc |-> "loop", count |-> 0, projects |-> <<>>])
    /\ UNCHANGED <<collector, rules, job_tasks, queue, collected, config, resyncs, sched>>

\* Lines 239-240: the next secret, or the end of the loop.
LoopNext(p) ==
    /\ loc[p].pc = "loop"
    /\ IF loc[p].count < Len(loc[p].secret_ids)
       THEN SetLoc(p, [pc |-> "increase_total_tasks", count |-> loc[p].count + 1, task |-> FALSE, secret_info |-> EmptyDict, req_params |-> EmptyDict,
                       trail |-> Append(loc[p].trail, [secret_id |-> loc[p].secret_ids[loc[p].count + 1], failed_at |-> "none", dispatch |-> "none"])])
       ELSE SetLoc(p, [pc |-> "update_last_collected_time"])
    /\ NoFault
    /\ UNCHANGED <<collector, rules, jobs, job_tasks, queue, collected, config, resyncs, sched>>

\* IncreaseTotalTasks calling increase_remained_tasks_by_vo in its place.
IncreaseTotalTasksAsRemained(p) ==
    /\ loc[p].pc = "increase_total_tasks"
    /\ \/ /\ SetJob(p, [remained_tasks |-> jobs[p].remained_tasks + 1])
          /\ SetLoc(p, [pc |-> "increase_remained_tasks"])
          /\ NoFault
       \/ /\ Fault
          /\ RaiseInLoop(p, "increase_total_tasks_by_vo")
          /\ UNCHANGED jobs
    /\ UNCHANGED <<collector, rules, job_tasks, queue, collected, config, resyncs, sched>>

\* IncreaseTotalTasks with the call of line 242 left out.
IncreaseTotalTasksLeftOut(p) ==
    /\ loc[p].pc = "increase_total_tasks"
    /\ SetLoc(p, [pc |-> "increase_remained_tasks"])
    /\ NoFault
    /\ UNCHANGED <<collector, rules, jobs, job_tasks, queue, collected, config, resyncs, sched>>

\* Line 242: job_mgr.increase_total_tasks_by_vo(created_job)
IncreaseTotalTasks(p) ==
    /\ loc[p].pc = "increase_total_tasks"
    /\ \/ /\ SetJob(p, [total_tasks |-> jobs[p].total_tasks + 1])
          /\ SetLoc(p, [pc |-> "increase_remained_tasks"])
          /\ NoFault
       \/ /\ Fault
          /\ RaiseInLoop(p, "increase_total_tasks_by_vo")
          /\ UNCHANGED jobs
    /\ UNCHANGED <<collector, rules, job_tasks, queue, collected, config, resyncs, sched>>

\* IncreaseRemainedTasks calling a decrement of the counter in its place.
IncreaseRemainedTasksDecreases(p) ==
    /\ loc[p].pc = "increase_remained_tasks"
    /\ \/ /\ SetJob(p, [remained_tasks |-> jobs[p].remained_tasks - 1])
          /\ SetLoc(p, [pc |-> "set_secret_info"])
          /\ NoFault
       \/ /\ Fault
          /\ RaiseInLoop(p, "increase_remained_tasks_by_vo")
          /\ UNCHANGED jobs
    /\ UNCHANGED <<collector, rules, job_tasks, queue, collected, config, resyncs, sched>>

\* Line 243: job_mgr.increase_remained_tasks_by_vo(created_job)
IncreaseRemainedTasks(p) ==
    /\ loc[p].pc = "increase_remained_tasks"
    /\ \/ /\ SetJob(p, [remained_tasks |-> jobs[p].remained_tasks + 1])
          /\ SetLoc(p, [pc |-> "set_secret_info"])
          /\ NoFault
       \/ /\ Fault
          /\ RaiseInLoop(p, "increase_remained_tasks_by_vo")
          /\ UNCHANGED jobs
    /\ UNCHANGED <<collector, rules, job_tasks, queue, collected, config, resyncs, sched>>

\* Lines 245-248: the secret's attributes; its project id, when it has one,
\* is appended to projects.
GetSecretInfo(p) ==
    /\ loc[p].pc = "set_secret_info"
    /\ \/ /\ LET secret_info == SetSecretInfo(CurrentSecret(p), DomainId)
                 project_id == DictGet(secret_info, "project_id", "")
             IN  SetLoc(p, [pc |-> "create_job_task", secret_info |-> secret_info,
                            projects |-> IF project_id # "" THEN Append(loc[p].projects, project_id) ELSE loc[p].projects])
          /\ NoFault
       \/ /\ Fault
          /\ RaiseInLoop(p, "get_secret")
    /\ UNCHANGED <<collector, rules, jobs, job_tasks, queue, collected, config, resyncs, sched>>

\* Line 250: job_task_mgr.create_job_task(created_job, secret_info, domain_id)
CreateJobTask(p) ==
    /\ loc[p].pc = "create_job_task"
    /\ \/ /\ job_tasks' = Append(job_tasks, [job_id |-> p, secret_id |-> loc[p].secret_info.secret_id])
          /\ SetLoc(p, [pc |-> "make_collecting_parameters"])
          /\ NoFault
       \/ /\ Fault
          /\ RaiseInLoop(p, "create_job_task")
          /\ UNCHANGED job_tasks
    /\ UNCHANGED <<collector, rules, jobs, queue, collected, config, resyncs, sched>>

\* Lines 252-257: collector_mgr.make_collecting_parameters builds the payload
\* of the task; use_cache comes with it.
MakeCollectingParameters(p) ==
    /\ loc[p].pc = "make_collecting_parameters"
    /\ \/ /\ SetLoc(p, [pc |-> "create_task_pipeline",
                     req_params |-> [job_id |-> p, secret_id |-> CurrentSecret(p), domain_id |-> DomainId,
                                     use_cache |-> DictGet(loc[p].params, "use_cache", FALSE)]])
          /\ NoFault
       \/ /\ Fault
          /\ RaiseInLoop(p, "make_collecting_parameters")
    /\ UNCHANGED <<collector, rules, jobs, job_tasks, queue, collected, config, resyncs, sched>>

\* CreateTaskPipeline testing "task or queue_name" at line 262.
CreateTaskPipelineEither(p) ==
    /\ loc[p].pc = "create_task_pipeline"
    /\ \/ /\ LET task == config.task
                 queue_name == config.queue_name
             IN  SetLoc(p, [pc |-> IF task \/ queue_name # "" THEN "validate" ELSE "collecting_resources", task |-> task])
          /\ NoFault
       \/ /\ Fault
          /\ RaiseInLoop(p, "create_task_pipeline")
    /\ UNCHANGED <<collector, rules, jobs, job_tasks, queue, collected, config, resyncs, sched>>

\* Lines 259-262 and 267: the task pipeline (an object, or none) and the
\* configured queue name decide between the queue and the inline call.
CreateTaskPipeline(p) ==
    /\ loc[p].pc = "create_task_pipeline"
    /\ \/ /\ LET task == config.task
                 queue_name == config.queue_name
             IN  SetLoc(p, [pc |-> IF task /\ queue_name # "" THEN "validate" ELSE "collecting_resources", task |-> task])
          /\ NoFault
       \/ /\ Fault
          /\ RaiseInLoop(p, "create_task_pipeline")
    /\ UNCHANGED <<collector, rules, jobs, job_tasks, queue, collected, config, resyncs, sched>>

\* Line 264: validate(task, schema=SPACEONE_TASK_SCHEMA)
Validate(p) ==
    /\ loc[p].pc = "validate"
    /\ \/ /\ SetLoc(p, [pc |-> "json_dumps"])
          /\ NoFault
       \/ /\ Fault
          /\ RaiseInLoop(p, "validate")
    /\ UNCHANGED <<collector, rules, jobs, job_tasks, queue, collected, config, resyncs, sched>>

\* Line 265: json.dumps(task)
JsonDumps(p) ==
    /\ loc[p].pc = "json_dumps"
    /\ \/ /\ SetLoc(p, [pc |-> "queue_put"])
          /\ NoFault
       \/ /\ Fault
          /\ RaiseInLoop(p, "json_dumps")
    /\ UNCHANGED <<collector, rules, jobs, job_tasks, queue, collected, config, resyncs, sched>>

\* Line 266: queue.put(queue_name, json_task)
QueuePut(p) ==
    /\ loc[p].pc = "queue_put"
    /\ \/ /\ queue' = Append(queue, [queue_name |-> config.queue_name, task |-> loc[p].req_params])
          /\ LET t == loc[p].trail
             IN  SetLoc(p, [pc |-> "loop", trail |-> [t EXCEPT ![Len(t)] = DictUpdate(@, [dispatch |-> "enqueued"])]])
          /\ NoFault
       \/ /\ Fault
          /\ RaiseInLoop(p, "queue_put")
          /\ UNCHANGED queue
    /\ UNCHANGED <<collector, rules, jobs, job_tasks, collected, config, resyncs, sched>>

\* Lines 268-273: collecting_mgr.collecting_resources, called inline with
\* job_id and use_cache of the payload.
CollectingResources(p) ==
    /\ loc[p].pc = "collecting_resources"
    /\ \/ /\ collected' = Append(collected, [job_id |-> loc[p].req_params.job_id, secret_id |-> loc[p].req_params.secret_id, use_cache |-> loc[p].req_params.use_cache])
          /\ LET t == loc[p].trail
             IN  SetLoc(p, [pc |-> "loop", trail |-> [t EXCEPT ![Len(t)] = DictUpdate(@, [dispatch |-> "inline"])]])
          /\ NoFault
       \/ /\ Fault
          /\ RaiseInLoop(p, "collecting_resources")
          /\ UNCHANGED collected
    /\ UNCHANGED <<collector, rules, jobs, job_tasks, queue, config, resyncs, sched>>

\* ExceptLoop leaving the loop after it has recorded the error.
ExceptLoopBreaks(p) ==
    /\ loc[p].pc = "except_loop"
    /\ jobs' = [jobs EXCEPT ![p] = AddError(@, "ERROR_COLLECTOR_COLLECTING", CurrentSecret(p))]
    /\ SetLoc(p, [pc |-> "update_last_collected_time"])
    /\ NoFault
    /\ UNCHANGED <<collector, rules, job_tasks, queue, collected, config, resyncs, sched>>

\* ExceptLoop passing the request's params to add_error, as line 226 does.
ExceptLoopWithParams(p) ==
    /\ loc[p].pc = "except_loop"
    /\ jobs' = [jobs EXCEPT ![p] = AddError(@, "ERROR_COLLECTOR_COLLECTING", DictGet(loc[p].params, "secret_id", 0))]
    /\ SetLoc(p, [pc |-> "loop"])
    /\ NoFault
    /\ UNCHANGED <<collector, rules, job_tasks, queue, collected, config, resyncs, sched>>

\* ExceptLoop marking the Job ERROR, as the except clause of line 224 does.
ExceptLoopMarksError(p) ==
    /\ loc[p].pc = "except_loop"
    /\ jobs' = [jobs EXCEPT ![p] = DictUpdate(AddError(@, "ERROR_COLLECTOR_COLLECTING", CurrentSecret(p)), [state |-> "ERROR"])]
    /\ SetLoc(p, [pc |-> "loop"])
    /\ NoFault
    /\ UNCHANGED <<collector, rules, job_tasks, queue, collected, config, resyncs, sched>>

\* Lines 275-278: the except clause of the per-secret try; the loop goes on.
ExceptLoop(p) ==
    /\ loc[p].pc = "except_loop"
    /\ jobs' = [jobs EXCEPT ![p] = AddError(@, "ERROR_COLLECTOR_COLLECTING", CurrentSecret(p))]
    /\ SetLoc(p, [pc |-> "loop"])
    /\ NoFault
    /\ UNCHANGED <<collector, rules, job_tasks, queue, collected, config, resyncs, sched>>

\* Line 281: collector_mgr.update_last_collected_time(collector_vo)
UpdateLastCollectedTime(p) ==
    /\ loc[p].pc = "update_last_collected_time"
    /\ collector' = DictUpdate(collector, [last_collected_by |-> p])
    /\ SetLoc(p, [pc |-> "update_job"])
    /\ NoFault
    /\ UNCHANGED <<rules, jobs, job_tasks, queue, collected, config, resyncs, sched>>

\* set(projects): the elements of a list.
SetOf(list) == {list[i] : i \in 1 .. Len(list)}

\* list(a_set): the elements of the set, each once, in an order the
\* language does not fix.
ListsOf(a_set) ==
    {list \in [1 .. Cardinality(a_set) -> a_set] : SetOf(list) = a_set}

\* UpdateJob storing projects as it was collected, without set().
UpdateJobKeepsDuplicates(p) ==
    /\ loc[p].pc = "update_job"
    /\ SetJob(p, [projects |-> loc[p].projects])
    /\ SetLoc(p, [pc |-> "done", result |-> "returned"])
    /\ NoFault
    /\ UNCHANGED <<collector, rules, job_tasks, queue, collected, config, resyncs, sched>>

\* Line 282: the job gets list(set(projects)) and is returned.
UpdateJob(p) ==
    /\ loc[p].pc = "update_job"
    /\ \E projects \in ListsOf(SetOf(loc[p].projects)) : SetJob(p, [projects |-> projects])
    /\ SetLoc(p, [pc |-> "done", result |-> "returned"])
    /\ NoFault
    /\ UNCHANGED <<collector, rules, job_tasks, queue, collected, config, resyncs, sched>>

\* ------------------------------------------- update_plugin, lines 286-324
\* The whole operation, called with params['version'] = version.  Line 319
\* looks update_collector_by_vo up on the service itself, which this file
\* does not define: the lookup either fails (nothing has been stored yet) or
\* finds an inherited method, and then the collector is updated and the
\* rules are resynchronised (lines 321-322).
UpdatePlugin(version) ==
    /\ version > collector.plugin_info.version
    /\ \/ UNCHANGED vars
       \/ \E updated_version \in UpdatedVersions(version), m \in Metadatas :
            LET plugin_info == DictUpdate(collector.plugin_info,
                                   [version |-> IF updated_version # 0 THEN updated_version ELSE version, metadata |-> m])
                deleted == DeleteCollectorRules(rules, CollectorId, DomainId)
            IN  /\ collector' = DictUpdate(collector, [plugin_info |-> plugin_info])
                /\ \/ /\ rules' = CreateCollectorRulesByMetadata(deleted, m, CollectorId, DomainId, NumRules(m))
                      /\ resyncs' = Append(resyncs, [by |-> "update_plugin", metadata |-> m, before |-> rules, after |-> rules'])
                      /\ NoFault
                   \/ /\ Fault
                      /\ UNCHANGED <<rules, resyncs>>
                   \/ /\ Fault
                      /\ \E n \in 0 .. (NumRules(m) - 1) :
                           rules' = CreateCollectorRulesByMetadata(deleted, m, CollectorId, DomainId, n)
                      /\ UNCHANGED resyncs
                /\ UNCHANGED <<jobs, job_tasks, queue, collected, config, loc, sched>>

\* ------------------------------------ scheduled_collectors, lines 363-399
\* The collectors the collector store may hold.  A collector's schedule has
\* the fields the docstring of lines 370-373 names, hours and minutes, and
\* an interval (0: none).
Slots == 0 .. MaxSlot

Schedules ==
    {[hours |-> {1}, minutes |-> {}, interval |-> 0],
     [hours |-> {}, minutes |-> {1}, interval |-> 0],
     [hours |-> {}, minutes |-> {}, interval |-> 10],
     [hours |-> {0, 1}, minutes |-> {1, MaxSlot}, interval |-> 0]}

StoredCollectors ==
    [state : {"ENABLED", "DISABLED"}, domain_id : {"domain-1", "domain-2"}, schedule : Schedules]

\* The stores scheduled_collectors is run against: at most two collectors.
CollectorStores == {store \in SUBSET StoredCollectors : Cardinality(store) <= 2}

\* params['schedule']: one axis, two of them, or none.
ScheduleParams ==
    {[hour |-> h] : h \in Slots} \cup {[minute |-> m] : m \in Slots}
        \cup {[interval |-> 10]} \cup {[hour |-> 1, minute |-> MaxSlot], [minute |-> 1, interval |-> 10]}
        \cup {EmptyDict}

\* The params of scheduled_collectors: schedule is required, domain_id is
\* optional.
ScheduledParams ==
    {[schedule |-> sc] : sc \in ScheduleParams}
        \cup {[schedule |-> sc, domain_id |-> d] : sc \in ScheduleParams, d \in {"domain-1", "domain-2"}}

\* Lines 383-397: the filter of the query.
ScheduledFilterQuery(params) ==
    LET schedule == DictGet(params, "schedule", EmptyDict)
    IN  <<[k |-> "collector.state", v |-> "ENABLED", o |-> "eq"]>>
        \o
        (IF "domain_id" \in DOMAIN params
         THEN <<[k |-> "domain_id", v |-> params["domain_id"], o |-> "eq"]>>
         ELSE <<>>)
        \o
        (IF "hour" \in DOMAIN schedule
         THEN <<[k |-> "schedule.hours", v |-> schedule["hour"], o |-> "contain"]>>
         ELSE IF "minute" \in DOMAIN schedule
         THEN <<[k |-> "schedule.minute", v |-> schedule["minute"], o |-> "contain"]>>
         ELSE IF "interval" \in DOMAIN schedule
         THEN <<[k |-> "schedule.interval", v |-> 0, o |-> "gt"]>>
         ELSE <<>>)

\* The keys of a query that name a field of a stored collector, and the
\* field's value.
QueryKeys == {"collector.state", "domain_id", "schedule.hours", "schedule.minutes", "schedule.interval"}

FieldValue(c, k) ==
    CASE k = "collector.state" -> c.state
      [] k = "domain_id" -> c.domain_id
      [] k = "schedule.hours" -> c.schedule.hours
      [] k = "schedule.minutes" -> c.schedule.minutes
      [] k = "schedule.interval" -> c.schedule.interval

\* One clause of the query, on a collector that has the field.
ClauseMatches(c, clause) ==
    CASE clause.o = "eq" -> FieldValue(c, clause.k) = clause.v
      [] clause.o = "contain" -> clause.v \in FieldValue(c, clause.k)
      [] clause.o = "gt" -> FieldValue(c, clause.k) > clause.v

\* collector_mgr.list_collectors({'filter': filter_query}): the collectors
\* matching every clause.  A clause on a key that names no field either
\* makes the query fail or matches no collector.
ListCollectors(store, filter_query) ==
    IF \E i \in 1 .. Len(filter_query) : filter_query[i].k \notin QueryKeys
    THEN {[error |-> TRUE, results |-> {}], [error |-> FALSE, results |-> {}]}
    ELSE {[error |-> FALSE,
           results |-> {c \in store : \A i \in 1 .. Len(filter_query) : ClauseMatches(c, filter_query[i])}]}

\* CollectorService.scheduled_collectors, called with params on a store.
ScheduledCollectors ==
    /\ sched.pc = "idle"
    /\ \E store \in CollectorStores, params \in ScheduledParams :
         \E out \in ListCollectors(store, ScheduledFilterQuery(params)) :
             sched' = [pc |-> "done", store |-> store, params |-> params, error |-> out.error, results |-> out.results]
    /\ UNCHANGED <<collector, rules, jobs, job_tasks, queue, collected, config, loc, resyncs, faults>>

\* ------------------------------------------------------- specification
\* One step of invocation p of collect.
Collect(p) ==
    \/ GetCollector(p)
    \/ GetEndpoint(p)
    \/ InitPlugin(p)
    \/ UpdateCollector(p)
    \/ DeleteRules(p)
    \/ CreateRules(p)
    \/ CreateJob(p)
    \/ SelectSecrets(p)
    \/ MakeSuccess(p)
    \/ ExceptInit(p)
    \/ MakeInProgress(p)
    \/ LoopNext(p)
    \/ IncreaseTotalTasks(p)
    \/ IncreaseRemainedTasks(p)
    \/ GetSecretInfo(p)
    \/ CreateJobTask(p)
    \/ MakeCollectingParameters(p)
    \/ CreateTaskPipeline(p)
    \/ Validate(p)
    \/ JsonDumps(p)
    \/ QueuePut(p)
    \/ CollectingResources(p)
    \/ ExceptLoop(p)
    \/ UpdateLastCollectedTime(p)
    \/ UpdateJob(p)

\* One invocation of collect on the collector, from the state create left.
Next == Collect("p1")

Spec == Init /\ [][Next]_vars

\* No invocation of collect is under way.
Quiet == \A q \in Procs : loc[q].pc \in {"idle", "done"}

\* Two invocations of collect, one after the other, and calls of
\* update_plugin between them; at most one call raises.
InitSeq ==
    /\ Created
    /\ collector.plugin_info.secret_filter # EmptyDict
    /\ faults = MaxFaults - 1

NextSeq ==
    \/ Collect("p1")
    \/ loc["p1"].pc = "done" /\ Collect("p2")
    \/ \E version \in 1 .. MaxVersion : Quiet /\ UpdatePlugin(version)

SpecSeq == InitSeq /\ [][NextSeq]_vars

\* Two invocations of collect on the same collector running concurrently:
\* their steps interleave freely (nothing in collect takes a lock).  Each is
\* called with a secret_id, the plugin of the new version reports MetaB, and
\* at most one call raises.
InitConc ==
    /\ Created
    /\ collector.plugin_info.secret_filter # EmptyDict
    /\ config.task
    /\ faults = MaxFaults - 1

CollectConc(p) ==
    \/ GetCollector(p) /\ loc'[p].params.secret_id # 0
    \/ GetEndpoint(p)
    \/ InitPlugin(p) /\ loc'[p].metadata \in {EmptyDict, MetaB}
    \/ UpdateCollector(p)
    \/ DeleteRules(p)
    \/ CreateRules(p)
    \/ CreateJob(p)
    \/ SelectSecrets(p)
    \/ MakeSuccess(p)
    \/ ExceptInit(p)
    \/ MakeInProgress(p)
    \/ LoopNext(p)
    \/ IncreaseTotalTasks(p)
    \/ IncreaseRemainedTasks(p)
    \/ GetSecretInfo(p)
    \/ CreateJobTask(p)
    \/ MakeCollectingParameters(p)
    \/ CreateTaskPipeline(p)
    \/ Validate(p)
    \/ JsonDumps(p)
    \/ QueuePut(p)
    \/ CollectingResources(p)
    \/ ExceptLoop(p)
    \/ UpdateLastCollectedTime(p)
    \/ UpdateJob(p)

NextConc == CollectConc("p1") \/ CollectConc("p2")

SpecConc == InitConc /\ [][NextConc]_vars

\* One call of scheduled_collectors, on any store and with any params.
InitSched ==
    /\ Created
    /\ collector.plugin_info.secret_filter = EmptyDict
    /\ config = [queue_name |-> "", task |-> FALSE]
    /\ faults = 0

NextSched == ScheduledCollectors

SpecSched == InitSched /\ [][NextSched]_vars

\* ================================================================ claims
\* The JobTasks invocation p created.
TasksOf(p) == SelectSeq(job_tasks, LAMBDA t : t.job_id = p)

\* The JobTasks invocation p created for secret s.
TasksFor(p, s) == SelectSeq(job_tasks, LAMBDA t : t.job_id = p /\ t.secret_id = s)

\* Invocation p has ended (returned or raised).
Done(p) == loc[p].pc = "done"

\* Invocation p has returned from the statement after the per-secret loop.
ReturnedAfterLoop(p) == Done(p) /\ loc[p].result = "returned" /\ loc[p].secret_ids # <<>>

\* Secret selection returned the empty list to invocation p, which has ended.
EndedAfterEmptySelection(p) ==
    /\ Done(p)
    /\ jobs[p].state # "NONE"
    /\ loc[p].secret_ids = <<>>
    /\ loc[p].raised_at # "list_secrets"

\* The steps of one iteration that come after the two counter increments.
StepsFromSecretLookup ==
    {"get_secret", "create_job_task", "make_collecting_parameters", "create_task_pipeline",
     "validate", "json_dumps", "queue_put", "collecting_resources"}

C2_TotalTasksIsN ==
    \A p \in Procs :
        ReturnedAfterLoop(p) => jobs[p].total_tasks = Len(loc[p].secret_ids)

\* The iterations of invocation p whose increase_total_tasks_by_vo raised.
TotalIncrementsFailed(p) ==
    {i \in 1 .. Len(loc[p].trail) : loc[p].trail[i].failed_at = "increase_total_tasks_by_vo"}

\* C2 amended: when collect returns after the loop over N eligible secrets,
\* total_tasks = N minus the number of iterations whose total-task increment
\* itself raised; it is N whatever the outcome of every other step.
C2_TotalTasksCountsIncrements ==
    \A p \in Procs :
        ReturnedAfterLoop(p) =>
            jobs[p].total_tasks = Len(loc[p].secret_ids) - Cardinality(TotalIncrementsFailed(p))

C2_Witness ==
    \E p \in Procs :
        /\ ReturnedAfterLoop(p)
        /\ Len(loc[p].secret_ids) = NumSecrets
        /\ \E i \in 1 .. Len(loc[p].trail) : loc[p].trail[i].failed_at \in StepsFromSecretLookup
        /\ \E i \in 1 .. Len(loc[p].trail) : loc[p].trail[i].dispatch # "none"
        /\ jobs[p].total_tasks = NumSecrets

\* ---------------------------------------------------------------- C3
\* The steps of an iteration that follow create_job_task.
DispatchSteps ==
    {"make_collecting_parameters", "create_task_pipeline", "validate", "json_dumps",
     "queue_put", "collecting_resources"}

\* C3: exactly one JobTask is created for each eligible secret, before any
\* dispatch step for it, also when the lookup of the secret's attributes or
\* a later step of its iteration fails.
C3_OneTaskPerSecret ==
    \A p \in Procs :
        /\ loc[p].pc \in DispatchSteps => Len(TasksFor(p, CurrentSecret(p))) = 1
        /\ ReturnedAfterLoop(p) =>
             \A i \in 1 .. Len(loc[p].secret_ids) :
                 loc[p].trail[i].failed_at \in StepsFromSecretLookup \cup {"none"} =>
                     Len(TasksFor(p, loc[p].secret_ids[i])) = 1

\* ---------------------------------------------------------------- C4
\* Secret selection raised in invocation p, which has ended.
EndedAfterSelectionRaised(p) == Done(p) /\ loc[p].raised_at = "list_secrets"

\* C4: if secret selection raises, the caller gets ERROR_COLLECT_INITIALIZE,
\* the Job's error log holds an ERROR_COLLECT_INITIALIZE entry, the Job is
\* in state ERROR, no JobTask was created and no counter incremented.
C4_SelectionFailureAborts ==
    \A p \in Procs :
        EndedAfterSelectionRaised(p) =>
            /\ loc[p].result = "ERROR_COLLECT_INITIALIZE"
            /\ \E i \in 1 .. Len(jobs[p].errors) : jobs[p].errors[i].error_code = "ERROR_COLLECT_INITIALIZE"
            /\ jobs[p].state = "ERROR"
            /\ TasksOf(p) = <<>>
            /\ jobs[p].total_tasks = 0
            /\ jobs[p].remained_tasks = 0

C4_Witness == \E p \in Procs : EndedAfterSelectionRaised(p) /\ jobs[p].state = "ERROR"

\* ---------------------------------------------------------------- C5
\* Iteration i of invocation p got its task to the queue or to the inline
\* collection.
Dispatched(p, i) ==
    LET it == loc[p].trail[i]
    IN  \/ /\ it.dispatch = "enqueued"
           /\ \E k \in 1 .. Len(queue) : queue[k].task.job_id = p /\ queue[k].task.secret_id = it.secret_id
        \/ /\ it.dispatch = "inline"
           /\ \E k \in 1 .. Len(collected) : collected[k].job_id = p /\ collected[k].secret_id = it.secret_id

\* C5: loop isolation.  A failure at any step of the iteration for one
\* secret never keeps the iteration of a later secret from being started
\* and dispatched: once the loop was entered collect returns, every secret
\* has had its iteration, in order, and every secret whose own steps did not
\* fail was dispatched.
C5_LoopIsolation ==
    \A p \in Procs :
        (Done(p) /\ loc[p].secret_ids # <<>>) =>
            /\ loc[p].result = "returned"
            /\ Len(loc[p].trail) = Len(loc[p].secret_ids)
            /\ \A j \in 1 .. Len(loc[p].secret_ids) :
                 /\ loc[p].trail[j].secret_id = loc[p].secret_ids[j]
                 /\ loc[p].trail[j].failed_at = "none" => Dispatched(p, j)

C5_Witness ==
    \E p \in Procs :
        /\ ReturnedAfterLoop(p)
        /\ Len(loc[p].trail) >= 2
        /\ loc[p].trail[1].failed_at # "none"
        /\ loc[p].trail[2].failed_at = "none"
        /\ Dispatched(p, 2)

\* ---------------------------------------------------------------- C6
\* The rules of a store that are MANAGED rules of the collector.
ManagedOwned(store) ==
    SelectSeq(store, LAMBDA r : r.rule_type = "MANAGED" /\ r.collector_id = CollectorId /\ r.domain_id = DomainId)

CustomRules(store) == SelectSeq(store, LAMBDA r : r.rule_type = "CUSTOM")

\* One MANAGED rule per entry of the metadata's collector_rules, stamped
\* with the collector's id and the domain's id.
RulesOfMetadata(plugin_metadata) ==
    LET collector_rules == DictGet(plugin_metadata, "collector_rules", <<>>)
    IN  [i \in 1 .. Len(collector_rules) |->
            [payload |-> collector_rules[i], domain_id |-> DomainId, collector_id |-> CollectorId, rule_type |-> "MANAGED"]]

\* The rule resyncs that invocation p ran to completion.
ResyncsBy(p) == SelectSeq(resyncs, LAMBDA r : r.by = p)

\* Invocation p got a new version and is past its rule resync.
UpgradedAndResynced(p) == loc[p].updated_version # 0 /\ jobs[p].state # "NONE"

\* C6: when endpoint resolution reports a new version exactly one resync
\* runs; after it the collector owns exactly one MANAGED rule per entry of
\* the new metadata's collector_rules, stamped with the collector's id as
\* collector_id and the domain's id as domain_id, no MANAGED rule it owned
\* before is left, and the CUSTOM rules are unchanged.
C6_UpgradeReplacesManagedRules ==
    \A p \in Procs :
        UpgradedAndResynced(p) =>
            /\ Len(ResyncsBy(p)) = 1
            /\ ManagedOwned(ResyncsBy(p)[1].after) = RulesOfMetadata(ResyncsBy(p)[1].metadata)
            /\ CustomRules(ResyncsBy(p)[1].after) = CustomRules(ResyncsBy(p)[1].before)

\* ---------------------------------------------------------------- C7
\* The MANAGED rules of a store, whatever their stamps.
ManagedRules(store) == SelectSeq(store, LAMBDA r : r.rule_type = "MANAGED")

\* Number of times rule r occurs in the store.
Occurrences(store, r) == Cardinality({i \in 1 .. Len(store) : store[i] = r})

SameRules(a, b) ==
    /\ Len(a) = Len(b)
    /\ \A i \in 1 .. Len(a) : Occurrences(a, a[i]) = Occurrences(b, a[i])

\* C7: the resync is idempotent.  When collect runs it twice in a row for
\* the same metadata (nothing else touching the rule store in between), the
\* MANAGED rules after the second run are those after the first.
C7_ResyncIdempotent ==
    \A i \in 1 .. (Len(resyncs) - 1) :
        (/\ resyncs[i].by \in Procs
         /\ resyncs[i + 1].by \in Procs
         /\ resyncs[i].metadata = resyncs[i + 1].metadata
         /\ resyncs[i + 1].before = resyncs[i].after) =>
            SameRules(ManagedRules(resyncs[i + 1].after), ManagedRules(resyncs[i].after))

\* ---------------------------------------------------------------- C8
\* C8: a JobTask is created only for secrets that satisfy every clause of
\* the collector's configured secret filter and the requested secret_id.
C8_TasksMatchConfiguredFilter ==
    \A k \in 1 .. Len(job_tasks) :
        LET clauses == SetSecretFilter(collector.plugin_info.secret_filter,
                                       DictGet(loc[job_tasks[k].job_id].params, "secret_id", 0))
        IN  \A i \in 1 .. Len(clauses) : ClauseHolds(job_tasks[k].secret_id, clauses[i])

\* ---------------------------------------------------------------- C9
\* C9: a failure while deleting or recreating the MANAGED rules is not
\* fatal to collect: the Job is still created, the secrets are selected and
\* the rule failure is not what the caller gets.
C9_ResyncFailureNotFatal ==
    \A p \in Procs :
        (Done(p) /\ loc[p].raised_at \in {"delete_collector_rules", "create_collector_rules_by_metadata"}) =>
            /\ jobs[p].state # "NONE"
            /\ loc[p].result # "RULE_ERROR"

\* --------------------------------------------------------------- C10
\* C10: once secret selection has returned, collect raises nothing and
\* returns the Job, whichever later step fails.
C10_NoRaiseAfterSelection ==
    \A p \in Procs :
        (Done(p) /\ jobs[p].state # "NONE" /\ loc[p].raised_at # "list_secrets") =>
            loc[p].result = "returned"

\* --------------------------------------------------------------- C11
\* C11 as stated: within one invocation of collect remained_tasks is
\* monotonically non-increasing: no step makes it larger than it was.
C11_RemainedNonIncreasing ==
    [][\A p \in Procs : jobs'[p].remained_tasks <= jobs[p].remained_tasks]_vars

\* C11 amended: within one invocation of collect remained_tasks is
\* monotonically non-decreasing: every step leaves it as it was or, when it
\* registers a task (line 243), raises it by exactly one; no step of collect
\* lowers it.
C11_RemainedNonDecreasing ==
    [][\A p \in Procs :
          \/ jobs'[p].remained_tasks = jobs[p].remained_tasks
          \/ /\ loc[p].pc = "increase_remained_tasks"
             /\ jobs'[p].remained_tasks = jobs[p].remained_tasks + 1]_vars

C11_Witness ==
    \E p \in Procs :
        /\ ReturnedAfterLoop(p)
        /\ jobs[p].remained_tasks = NumSecrets
        /\ \E i \in 1 .. Len(loc[p].trail) : loc[p].trail[i].failed_at \in StepsFromSecretLookup

\* --------------------------------------------------------------- C12
\* The rule store and the plugin binding after the two invocations have run
\* one after the other from the state create left: the first one upgrades
\* to version 2 and resyncs the rules for MetaB (lines 206-210), the second
\* one finds the collector at the registry's version and changes nothing.
RulesAfterSequential ==
    CreateCollectorRulesByMetadata(
        DeleteCollectorRules(Append(RulesAfterCreate(MetaA), CustomRule), CollectorId, DomainId),
        MetaB, CollectorId, DomainId, NumRules(MetaB))

\* Both invocations have ended, no call raised, and both observed the
\* upgrade to version 2.
BothUpgraded ==
    /\ \A p \in Procs : Done(p) /\ loc[p].result = "returned" /\ loc[p].updated_version = 2
    /\ faults = MaxFaults - 1

\* C12: two concurrent invocations of collect on one collector share no
\* written state but the last-collected timestamp: when both have ended the
\* collector's plugin binding and its MANAGED rules are those left by
\* running the two one after the other; in particular no MANAGED rule is
\* there twice when both observed the version upgrade.
C12_ConcurrentAsSequential ==
    BothUpgraded =>
        /\ collector.plugin_info.version = 2
        /\ collector.plugin_info.metadata = MetaB
        /\ SameRules(ManagedRules(rules), ManagedRules(RulesAfterSequential))

\* --------------------------------------------------------------- C13
\* The collectors of the store that are ENABLED, in the domain when one is
\* given, and match the one schedule axis honoured: hour before minute
\* before interval.
ExpectedScheduled(store, params) ==
    LET schedule == params.schedule
    IN  {c \in store :
            /\ c.state = "ENABLED"
            /\ "domain_id" \in DOMAIN params => c.domain_id = params.domain_id
            /\ IF "hour" \in DOMAIN schedule THEN schedule.hour \in c.schedule.hours
               ELSE IF "minute" \in DOMAIN schedule THEN schedule.minute \in c.schedule.minutes
               ELSE IF "interval" \in DOMAIN schedule THEN c.schedule.interval > 0
               ELSE TRUE}

\* C13: scheduled_collectors returns exactly the ENABLED collectors, of the
\* given domain when there is one, that match the one axis honoured: those
\* whose schedule hours contain h when an hour is given, otherwise those
\* whose schedule minutes contain m when a minute is given, otherwise those
\* with an interval greater than 0 when an interval is given.
C13_ScheduledCollectorsMatchAxis ==
    (sched.pc = "done" /\ ~sched.error) =>
        sched.results = ExpectedScheduled(sched.store, sched.params)

\* --------------------------------------------------------------- C14
\* The changes of state a Job may go through in collect.
JobStateMoves ==
    {<<"NONE", "CREATED">>, <<"CREATED", "IN_PROGRESS">>, <<"CREATED", "SUCCESS">>, <<"CREATED", "ERROR">>}

\* C14: within an invocation the Job's state only moves CREATED ->
\* IN_PROGRESS, CREATED -> SUCCESS (no eligible secret) or CREATED -> ERROR
\* (secret selection failed): it never goes back, and a Job in SUCCESS or
\* ERROR keeps its state in every later step, also when make_success_by_vo
\* itself raised.
C14_JobStateMoves ==
    [][\A p \in Procs :
          jobs'[p].state # jobs[p].state =>
              /\ <<jobs[p].state, jobs'[p].state>> \in JobStateMoves
              /\ jobs'[p].state = "SUCCESS" => loc[p].secret_ids = <<>>
              /\ jobs'[p].state = "ERROR" => loc[p].raised_at = "list_secrets"]_vars

\* --------------------------------------------------------------- C15
\* Invocation p has ended after secrets were selected and
\* make_inprogress_by_vo raised: the Job is still as it was created.
EndedAfterInProgressRaised(p) ==
    Done(p) /\ loc[p].secret_ids # <<>> /\ jobs[p].state = "CREATED"

\* C15: when make_inprogress_by_vo raises collect goes on: it returns the
\* Job, every eligible secret has had its iteration, and every secret whose
\* own iteration did not fail has its JobTask and was dispatched.
C15_InProgressFailureNotFatal ==
    \A p \in Procs :
        EndedAfterInProgressRaised(p) =>
            /\ loc[p].result = "returned"
            /\ Len(loc[p].trail) = Len(loc[p].secret_ids)
            /\ \A j \in 1 .. Len(loc[p].secret_ids) :
                 loc[p].trail[j].failed_at = "none" =>
                     /\ Len(TasksFor(p, loc[p].secret_ids[j])) = 1
                     /\ Dispatched(p, j)

C15_Witness ==
    \E p \in Procs :
        /\ EndedAfterInProgressRaised(p)
        /\ Len(loc[p].secret_ids) = NumSecrets
        /\ \A j \in 1 .. NumSecrets : loc[p].trail[j].failed_at = "none" /\ Dispatched(p, j)
        /\ jobs[p].total_tasks = NumSecrets

\* --------------------------------------------------------------- C16
\* The tasks invocation p put on the queue for secret s, and its inline
\* collections for s.
EnqueuedFor(p, s) == SelectSeq(queue, LAMBDA q : q.task.job_id = p /\ q.task.secret_id = s)

CollectedFor(p, s) == SelectSeq(collected, LAMBDA c : c.job_id = p /\ c.secret_id = s)

\* A collect queue name is configured and create_task_pipeline built a task.
Asynchronous == config.task /\ config.queue_name # ""

\* The error entries of invocation p's Job for secret s.
ErrorsFor(p, s) == SelectSeq(jobs[p].errors, LAMBDA e : e.secret_id = s)

\* C16: a secret is dispatched at most once and never both ways: its task
\* is put on the queue, after validate and json.dumps, exactly when a queue
\* name is configured and a task object was built; otherwise
\* collecting_resources is called inline, once, with the job id and the
\* use_cache of the payload; a missing queue name is never an error.
C16_OneDispatchByConfig ==
    \A p \in Procs :
        \A i \in 1 .. Len(loc[p].trail) :
            LET it == loc[p].trail[i]
                enqueued == EnqueuedFor(p, it.secret_id)
                inline == CollectedFor(p, it.secret_id)
            IN  /\ Len(enqueued) + Len(inline) <= 1
                /\ it.dispatch = "enqueued" <=> Len(enqueued) = 1
                /\ it.dispatch = "inline" <=> Len(inline) = 1
                /\ Len(enqueued) = 1 =>
                     /\ Asynchronous
                     /\ enqueued[1].queue_name = config.queue_name
                /\ Len(inline) = 1 =>
                     /\ ~Asynchronous
                     /\ inline[1].use_cache = DictGet(loc[p].params, "use_cache", FALSE)
                /\ it.failed_at \in {"validate", "json_dumps", "queue_put"} => Asynchronous
                /\ it.failed_at = "collecting_resources" => ~Asynchronous
                /\ it.failed_at = "none" => ErrorsFor(p, it.secret_id) = <<>>

\* A task object was built but no queue name is configured: the secret is
\* collected inline with use_cache set, and nothing is recorded as an error.
C16_Witness ==
    \E p \in Procs :
        /\ ReturnedAfterLoop(p)
        /\ config.task /\ config.queue_name = ""
        /\ loc[p].trail[1].dispatch = "inline"
        /\ Len(CollectedFor(p, loc[p].trail[1].secret_id)) = 1
        /\ CollectedFor(p, loc[p].trail[1].secret_id)[1].use_cache
        /\ jobs[p].errors = <<>>

\* --------------------------------------------------------------- C17
\* The iterations of invocation p that failed, in the order they ran.
FailedIterations(p) == SelectSeq(loc[p].trail, LAMBDA it : it.failed_at # "none")

\* C17: when collect returns after the loop the Job's error log holds, in
\* the order the secrets were processed, exactly one entry tagged
\* ERROR_COLLECTOR_COLLECTING with the secret's id for each secret whose
\* iteration failed, and nothing else.
C17_ErrorLogListsFailedSecrets ==
    \A p \in Procs :
        ReturnedAfterLoop(p) =>
            jobs[p].errors =
                [i \in 1 .. Len(FailedIterations(p)) |->
                    [error_code |-> "ERROR_COLLECTOR_COLLECTING", secret_id |-> FailedIterations(p)[i].secret_id]]

\* Two secrets failed: two entries, in the order of the secrets.
C17_Witness ==
    \E p \in Procs :
        /\ ReturnedAfterLoop(p)
        /\ Len(jobs[p].errors) = 2
        /\ jobs[p].errors[1].secret_id = loc[p].secret_ids[1]
        /\ jobs[p].errors[2].secret_id = loc[p].secret_ids[2]

\* --------------------------------------------------------------- C18
\* The steps of an iteration that come before the secret's attributes are
\* there.
StepsUpToSecretLookup ==
    {"increase_total_tasks_by_vo", "increase_remained_tasks_by_vo", "get_secret"}

\* The project ids of the secrets invocation p resolved, those without a
\* project id left out.
ResolvedProjects(p) ==
    {Secret(loc[p].trail[i].secret_id).project_id :
        i \in {j \in 1 .. Len(loc[p].trail) :
                  /\ loc[p].trail[j].failed_at \notin StepsUpToSecretLookup
                  /\ Secret(loc[p].trail[j].secret_id).project_id # ""}}

\* C18: the projects stored on the Job when collect returns after the loop
\* are, each once, the project ids of the eligible secrets whose attributes
\* were resolved and that have a project id: a secret without project id
\* or whose lookup failed adds nothing, one whose dispatch failed after the
\* lookup still adds its project id.
C18_ProjectsOfResolvedSecrets ==
    \A p \in Procs :
        ReturnedAfterLoop(p) =>
            /\ SetOf(jobs[p].projects) = ResolvedProjects(p)
            /\ Len(jobs[p].projects) = Cardinality(ResolvedProjects(p))

\* Two secrets of the same project were resolved, one of them failing in a
\* later step, and the secret without project id was resolved too.
C18_Witness ==
    \E p \in Procs :
        /\ ReturnedAfterLoop(p)
        /\ Len(loc[p].projects) = 2
        /\ loc[p].projects[1] = loc[p].projects[2]
        /\ \E i \in 1 .. Len(loc[p].trail) :
             /\ loc[p].trail[i].failed_at \in DispatchSteps \cup {"create_job_task"}
             /\ Secret(loc[p].trail[i].secret_id).project_id # ""
        /\ \E i \in 1 .. Len(loc[p].trail) :
             /\ loc[p].trail[i].failed_at = "none"
             /\ Secret(loc[p].trail[i].secret_id).project_id = ""
        /\ Len(jobs[p].projects) = 1

\* --------------------------------------------------------------- C19
\* get_endpoint raised in invocation p, which has ended.
EndedAfterEndpointRaised(p) == Done(p) /\ loc[p].raised_at = "get_endpoint"

\* C19: when get_endpoint raises in collect the caller gets the failure
\* and nothing was changed: no Job, no JobTask, no dispatch, the rule store
\* as create left it, and the collector's version, metadata and
\* last-collected mark as they were read.
C19_EndpointFailureChangesNothing ==
    \A p \in Procs :
        EndedAfterEndpointRaised(p) =>
            /\ loc[p].result = "PLUGIN_ERROR"
            /\ jobs[p] = NoJob
            /\ TasksOf(p) = <<>>
            /\ queue = <<>> /\ collected = <<>>
            /\ rules = Append(RulesAfterCreate(MetaA), CustomRule)
            /\ resyncs = <<>>
            /\ collector.plugin_info = loc[p].plugin_info
            /\ collector.plugin_info.version = 1
            /\ collector.plugin_info.metadata = MetaA
            /\ collector.last_collected_by = "never"

C19_Witness ==
    \E p \in Procs :
        /\ EndedAfterEndpointRaised(p)
        /\ loc[p].result = "PLUGIN_ERROR"
        /\ jobs[p].state = "NONE"

\* --------------------------------------------------------------- C20
\* C20: when collect returns after the loop (some secret was selected) it
\* has set no terminal state: the Job is IN_PROGRESS, or CREATED when
\* make_inprogress_by_vo raised, whether its tasks ran inline, were put on
\* the queue or failed; a Job that collect leaves in SUCCESS or ERROR
\* belongs to the path with no secret selected or to a failed selection.
C20_NoTerminalStateAfterLoop ==
    \A p \in Procs :
        /\ ReturnedAfterLoop(p) => jobs[p].state \in {"IN_PROGRESS", "CREATED"}
        /\ (Done(p) /\ jobs[p].state \in {"SUCCESS", "ERROR"}) =>
               EndedAfterEmptySelection(p) \/ EndedAfterSelectionRaised(p)

\* Every selected secret failed and the Job is IN_PROGRESS all the same.
C20_Witness ==
    \E p \in Procs :
        /\ ReturnedAfterLoop(p)
        /\ \A i \in 1 .. Len(loc[p].trail) : loc[p].trail[i].failed_at # "none"
        /\ jobs[p].state = "IN_PROGRESS"
        /\ Len(jobs[p].errors) = Len(loc[p].secret_ids)

\* --------------------------------------------------------------- C21
\* get_endpoint returned to invocation p and reported no new version.
NoNewVersion(p) ==
    /\ loc[p].pc \notin {"idle", "get_endpoint"}
    /\ loc[p].raised_at # "get_endpoint"
    /\ loc[p].updated_version = 0

\* C21: when get_endpoint reports no new version collect does not call
\* init_plugin, leaves the collector's stored version and metadata as they
\* were, and deletes and creates no collector rule, MANAGED or CUSTOM.
C21_NoUpgradeChangesNothing ==
    \A p \in Procs :
        NoNewVersion(p) =>
            /\ loc[p].metadata = EmptyDict
            /\ collector.plugin_info = loc[p].plugin_info
            /\ collector.plugin_info.version = 1
            /\ collector.plugin_info.metadata = MetaA
            /\ rules = Append(RulesAfterCreate(MetaA), CustomRule)
            /\ resyncs = <<>>

C21_Witness ==
    \E p \in Procs :
        /\ NoNewVersion(p)
        /\ ReturnedAfterLoop(p)
        /\ TasksOf(p) # <<>>
        /\ rules = Append(RulesAfterCreate(MetaA), CustomRule)

\* --------------------------------------------------------------- C22
\* The counters of invocation p's Job against the iterations it has started
\* and the JobTasks it has created.
CountersInStep(p) ==
    /\ jobs[p].remained_tasks <= jobs[p].total_tasks
    /\ jobs[p].total_tasks <= loc[p].count
    /\ loc[p].count = Len(loc[p].trail)
    /\ Len(TasksOf(p)) <= jobs[p].total_tasks

\* C22: in every state of an invocation remained_tasks <= total_tasks <=
\* the number of secrets whose iteration has started, and the number of
\* JobTasks created <= total_tasks; no step of collect lowers either
\* counter.
C22_CountersBounded ==
    /\ [](\A p \in Procs : CountersInStep(p))
    /\ [][\A p \in Procs :
            /\ jobs'[p].total_tasks >= jobs[p].total_tasks
            /\ jobs'[p].remained_tasks >= jobs[p].remained_tasks]_vars

\* The increment of remained_tasks raised for one secret and the secret
\* lookup for another: all three counts differ.
C22_Witness ==
    \E p \in Procs :
        /\ ReturnedAfterLoop(p)
        /\ loc[p].count = NumSecrets
        /\ jobs[p].total_tasks = NumSecrets
        /\ jobs[p].remained_tasks = NumSecrets - 1
        /\ Len(TasksOf(p)) = NumSecrets - 2

====
